---- MODULE Spec2Model ----
(***************************************************************************)
(* State-machine model of the chat session engine of src/chatbot.js (the   *)
(* App component): initialization and authentication, the session and      *)
(* message effects, createNewChatSession, selectChatSession and            *)
(* handleSendMessage, together with the external document store, the       *)
(* authentication provider and the text-generation endpoint as             *)
(* nondeterministic environments.                                          *)
(*                                                                         *)
(* React conventions used throughout: a handler reads the state of the     *)
(* render it was created in (its closure); an async handler keeps that     *)
(* closure across its awaits; the state updates of one synchronous run of  *)
(* a handler are committed together, and the effects whose dependencies    *)
(* changed run before the next event is handled.                           *)
(***************************************************************************)
EXTENDS Integers, Sequences, FiniteSets, TLC

\* ------------------------------------------------------------------ bounds
MaxSessions == 2     \* session identifiers that may be allocated in a run
MaxTurns == 2        \* send-message turns that may be accepted in a run
MaxLiveTurns == 1    \* the same, in the runs checked for progress (FairSpec)

\* --------------------------------------------------------------- constants
NoSession == 0       \* currentSessionId = null
NoUser == "null"     \* userId = null
Uid == "u1"          \* user.uid of the authenticated principal

SP == " "
NL == "\n"
WhiteSpace == {SP, NL}
\* Values the user may type into the input box.
Inputs == { <<>>, <<SP>>, <<SP, "a", SP>> }

\* __firebase_config as the init effect sees it; "read" once the effect has run
\* (nothing reads the configuration after that).
Configs == { "absent", "malformed", "noProjectId", "valid" }
Read == "read"

\* Outcomes of the generation call fetch(apiUrl) / response.json(): a 2xx
\* answer with the expected body ("text"), 2xx answers whose body is an object
\* lacking part of the expected shape (Malformed), a 2xx answer whose body is
\* the JSON value null, a non-2xx answer, a rejected fetch, an unparsable body.
Malformed ==
  { "noCandidates", "emptyCandidates", "noContent", "noParts", "emptyParts",
    "noText" }
Responses == { "text", "nullBody", "http500", "rejected", "badJson" } \cup Malformed

\* Texts are sequences of tokens; the fixed strings are one token each.
Apology == <<"Sorry, I couldn't get a response.">>
ConnError == <<"There was an error connecting to the AI. Please check the console.">>
ReplyText == <<"reply">>

\* ----------------------------------------------------------------- helpers
RECURSIVE TrimStart(_)
TrimStart(s) ==
  IF s # <<>> /\ Head(s) \in WhiteSpace THEN TrimStart(Tail(s)) ELSE s

RECURSIVE TrimEnd(_)
TrimEnd(s) ==
  IF s # <<>> /\ s[Len(s)] \in WhiteSpace
  THEN TrimEnd(SubSeq(s, 1, Len(s) - 1)) ELSE s

\* String.prototype.trim
Trim(s) == TrimEnd(TrimStart(s))

\* chatSessions.find(s => s.id === id) succeeds
HasSession(list, id) == \E i \in 1..Len(list) : list[i].id = id

\* the record of session id in a list that holds it
SessionOf(list, id) == list[CHOOSE i \in 1..Len(list) : list[i].id = id]

\* chatSessions.map(s => s.id === id ? { ...s, messages: msgs } : s)
MapMessages(list, id, msgs) ==
  [i \in 1..Len(list) |->
     IF list[i].id = id THEN [list[i] EXCEPT !.messages = msgs] ELSE list[i]]

\* The store's collection is kept in query order (orderBy updatedAt desc):
\* a document that is created or updated moves to the front.
Without(list, id) == SelectSeq(list, LAMBDA d : d.id # id)

VARIABLES
  config,            \* __firebase_config, until the init effect has read it
  authUser,          \* the provider's current user (environment)
  authNotify,        \* an auth-state callback is due
  signIn,            \* "none" | "pending": the await in the auth callback
  db, userId, isReady, isDemoMode,
  chatSessions, currentSessionId, messages, input, loading,
  snapCurrentSessionId, \* currentSessionId closed over by the session listener
  firstSnapshot,     \* the session listener has delivered a snapshot
  store,             \* the session collection in the document store
  nextId,            \* next unused session identifier
  creating,          \* createNewChatSession calls of the button awaiting addDoc
  autoCreating,      \* createNewChatSession calls of the session effect awaiting addDoc
  autoCreated,       \* sessions created by calls of the session effect
  nTurns,            \* handleSendMessage calls accepted so far
  turns,             \* the send-message turns in flight
  perceptionDocContent, \* the API reference text ('' until loaded)
  luaExamplesContent,   \* the combined example scripts ('' until loaded)
  fetchPc,           \* fetchPerceptionAndLuaExamples: 0 at the Perception.txt
                     \* fetch, i at the fetch of luaFiles[i], then done
  examplesCombined,  \* its local examplesCombined
  renderText,        \* the message text handed to renderMessageContent
  rendered,          \* what renderMessageContent returned for it (<<>>: not
                     \* called yet)
  listeners          \* the registered onSnapshot listeners: those of the
                     \* session collection (by user) and those of session
                     \* documents (by session)

authVars == <<config, authUser, authNotify, signIn>>
modeVars == <<db, userId, isReady, isDemoMode>>
viewVars == <<chatSessions, currentSessionId, messages, input, loading>>
subVars == <<snapCurrentSessionId, firstSnapshot>>
createVars == <<nextId, creating, autoCreating, autoCreated>>
turnVars == <<nTurns, turns>>
docVars == <<perceptionDocContent, luaExamplesContent, fetchPc, examplesCombined>>
renderVars == <<renderText, rendered>>
vars ==
  <<authVars, modeVars, viewVars, subVars, createVars, store, turnVars, docVars,
    renderVars, listeners>>

\* -------------------------------------------------- derived subscriptions
\* The session-collection listener of the session effect is registered
\* exactly while the effect's Firestore branch holds.
SessionsSub == isReady /\ ~isDemoMode /\ db /\ userId # NoUser

\* DocSub that follows the most recently updated session instead of the
\* current one.
DocSubMostRecent ==
  IF currentSessionId # NoSession /\ ~isDemoMode /\ isReady /\ db /\ userId # NoUser
     /\ store # <<>>
  THEN store[1].id ELSE NoSession

\* The session-document listener of the message effect, and the session it
\* is registered for (NoSession: none).
DocSub ==
  IF currentSessionId # NoSession /\ ~isDemoMode /\ isReady /\ db /\ userId # NoUser
  THEN currentSessionId ELSE NoSession

\* ----------------------------------------------------- effects and cleanup
\* The dependencies of the session effect and of the message effect.
Deps(ready, demo, d, u, sid) ==
  [isReady |-> ready, isDemoMode |-> demo, db |-> d, userId |-> u,
   currentSessionId |-> sid]

SessionDeps(deps) ==
  <<deps.isReady, deps.isDemoMode, deps.db, deps.userId>>
MessageDeps(deps) ==
  <<deps.isReady, deps.db, deps.userId, deps.currentSessionId, deps.isDemoMode>>

\* The run of the session effect under deps registers a listener (and
\* returns its unsubscribe).
SessionSubscribes(deps) ==
  deps.isReady /\ ~deps.isDemoMode /\ deps.db /\ deps.userId # NoUser

\* The same for the message effect.
MessageSubscribes(deps) ==
  /\ deps.currentSessionId # NoSession /\ ~deps.isDemoMode
  /\ deps.isReady /\ deps.db /\ deps.userId # NoUser

\* The listeners without the first one registered for target.
RECURSIVE RemoveOne(_, _)
RemoveOne(subs, target) ==
  IF subs = <<>> THEN <<>>
  ELSE IF Head(subs) = target THEN Tail(subs)
       ELSE <<Head(subs)>> \o RemoveOne(Tail(subs), target)

\* A cleanup that unsubscribes nothing.
UnsubscribeNothing(subs, target) == subs

\* unsubscribe(), the cleanup a subscribing run returns.
Unsubscribe(subs, target) == RemoveOne(subs, target)

\* The session effect after a commit that takes its dependencies from old to
\* new: nothing when they are equal; else the cleanup of the previous run,
\* then the new run.
SessionEffect(subs, old, new) ==
  IF SessionDeps(new) = SessionDeps(old) THEN subs
  ELSE LET cleaned == IF SessionSubscribes(old)
                      THEN Unsubscribe(subs, old.userId) ELSE subs
       IN IF SessionSubscribes(new) THEN Append(cleaned, new.userId)
          ELSE cleaned

\* The message effect after such a commit.
MessageEffect(subs, old, new) ==
  IF MessageDeps(new) = MessageDeps(old) THEN subs
  ELSE LET cleaned == IF MessageSubscribes(old)
                      THEN Unsubscribe(subs, old.currentSessionId) ELSE subs
       IN IF MessageSubscribes(new) THEN Append(cleaned, new.currentSessionId)
          ELSE cleaned

\* The listeners after the commit of a step.
Effects ==
  LET old == Deps(isReady, isDemoMode, db, userId, currentSessionId)
      new == Deps(isReady', isDemoMode', db', userId', currentSessionId')
  IN listeners' =
       [sessions |-> SessionEffect(listeners.sessions, old, new),
        docs |-> MessageEffect(listeners.docs, old, new)]

\* -------------------------------------------------------------------- Init
\* The component after construction, before any message is rendered.
Constructed ==
  /\ config \in Configs
  /\ authUser \in {NoUser, Uid}
  /\ authNotify = FALSE
  /\ signIn = "none"
  /\ db = FALSE /\ userId = NoUser /\ isReady = FALSE /\ isDemoMode = FALSE
  /\ chatSessions = <<>> /\ currentSessionId = NoSession
  /\ messages = <<>> /\ input = <<>> /\ loading = FALSE
  /\ snapCurrentSessionId = NoSession
  /\ firstSnapshot = FALSE
  /\ store = <<>>
  /\ perceptionDocContent = <<>> /\ luaExamplesContent = <<>>
  /\ fetchPc = 0 /\ examplesCombined = <<>>
  /\ nextId = 1
  /\ creating = 0 /\ autoCreating = 0 /\ autoCreated = 0
  /\ nTurns = 0
  /\ turns = {}
  /\ rendered = <<>>
  /\ listeners = [sessions |-> <<>>, docs |-> <<>>]

Init == Constructed /\ renderText = <<>>

\* ---------------------------------------------------- createNewChatSession
\* A session as created: no messages.
NewSession(id) == [id |-> id, messages |-> <<>>]

\* CreateDemo without setMessages([]).
CreateDemoKeepsMessages(closureSessions, auto) ==
  /\ nextId <= MaxSessions
  /\ chatSessions' = <<NewSession(nextId)>> \o closureSessions
  /\ currentSessionId' = nextId
  /\ loading' = FALSE
  /\ nextId' = nextId + 1
  /\ autoCreated' = IF auto THEN autoCreated + 1 ELSE autoCreated
  /\ UNCHANGED <<messages, input, creating, autoCreating>>

\* Demo branch: synchronous, against the chatSessions of the calling closure.
\* auto: the call comes from the session effect.
CreateDemo(closureSessions, auto) ==
  /\ nextId <= MaxSessions
  /\ chatSessions' = <<NewSession(nextId)>> \o closureSessions
  /\ currentSessionId' = nextId
  /\ messages' = <<>>
  /\ loading' = FALSE
  /\ nextId' = nextId + 1
  /\ autoCreated' = IF auto THEN autoCreated + 1 ELSE autoCreated
  /\ UNCHANGED <<input, creating, autoCreating>>

\* Firestore branch up to its await: loading is raised and addDoc is issued.
CreateIssue(auto) ==
  /\ nextId + creating + autoCreating <= MaxSessions
  /\ loading' = TRUE
  /\ creating' = IF auto THEN creating ELSE creating + 1
  /\ autoCreating' = IF auto THEN autoCreating + 1 ELSE autoCreating
  /\ UNCHANGED <<nextId, autoCreated>>

\* The "new chat" button: createNewChatSession of the latest render. When
\* neither branch applies loading is raised and lowered again.
createNewChatSession ==
  /\ IF isDemoMode THEN CreateDemo(chatSessions, FALSE)
     ELSE IF db /\ userId # NoUser
          THEN CreateIssue(FALSE)
               /\ UNCHANGED <<chatSessions, currentSessionId, messages, input>>
          ELSE /\ loading' = FALSE
               /\ UNCHANGED <<chatSessions, currentSessionId, messages, input, createVars>>
  /\ UNCHANGED <<docVars, renderVars, authVars, modeVars, subVars, store, turnVars>>
  /\ Effects

\* One pending call fewer, of the button's or of the effect's.
Settle(auto) ==
  /\ IF auto THEN autoCreating > 0 ELSE creating > 0
  /\ creating' = IF auto THEN creating ELSE creating - 1
  /\ autoCreating' = IF auto THEN autoCreating - 1 ELSE autoCreating

\* addDoc resolves: the store holds the new document, which becomes current.
AddDocResolves(auto) ==
  /\ Settle(auto)
  /\ store' = <<NewSession(nextId)>> \o store
  /\ currentSessionId' = nextId
  /\ messages' = <<>>
  /\ loading' = FALSE
  /\ nextId' = nextId + 1
  /\ autoCreated' = IF auto THEN autoCreated + 1 ELSE autoCreated
  /\ UNCHANGED <<docVars, renderVars, authVars, modeVars, chatSessions, input, subVars, turnVars>>
  /\ Effects

\* AddDocThrows without the setLoading(false) that follows the catch.
AddDocThrowsKeepsLoading(auto) ==
  /\ Settle(auto)
  /\ UNCHANGED <<docVars, renderVars, authVars, modeVars, viewVars,
                 subVars, store, nextId, autoCreated, turnVars>>
  /\ Effects

\* addDoc rejects: the error is logged, loading is lowered.
AddDocThrows(auto) ==
  /\ Settle(auto)
  /\ loading' = FALSE
  /\ UNCHANGED <<docVars, renderVars, authVars, modeVars, chatSessions, currentSessionId, messages,
                 input, subVars, store, nextId, autoCreated, turnVars>>
  /\ Effects

CreateResolves == \E auto \in BOOLEAN : AddDocResolves(auto)
CreateThrows == \E auto \in BOOLEAN : AddDocThrows(auto)

\* ------------------------------------------------------- mode and effects
\* Commit new values of the session effect's dependencies (db, userId,
\* isReady, isDemoMode) and run the effect if one of them changed: in Demo
\* mode it creates a session when the list is empty, in Firestore mode it
\* registers the collection listener.
ModeChange(d, u, r, m) ==
  LET changed == <<r, m, d, u>> # <<isReady, isDemoMode, db, userId>>
      bootstrap == changed /\ r /\ m /\ chatSessions = <<>>
      subscribes == changed /\ r /\ ~m /\ d /\ u # NoUser
  IN /\ db' = d /\ userId' = u /\ isReady' = r /\ isDemoMode' = m
     /\ IF bootstrap THEN CreateDemo(chatSessions, TRUE)
        ELSE UNCHANGED <<viewVars, createVars>>
     /\ snapCurrentSessionId' = IF subscribes THEN currentSessionId ELSE snapCurrentSessionId
     /\ firstSnapshot' = IF subscribes THEN FALSE ELSE firstSnapshot

\* ConfigFallsBack without the projectId test.
ConfigFallsBackNoProjectTest(c) == c \in {"absent", "malformed"}

\* The init effect falls back to Demo mode when the configuration is
\* missing, when JSON.parse (or initializeApp) throws, or when projectId is
\* missing.
ConfigFallsBack(c) == c \in {"absent", "malformed", "noProjectId"}

\* The init effect: Demo mode and ready at once, or Firestore and the
\* auth-state listener, whose first callback is due.
InitEffect ==
  /\ config \in Configs
  /\ config' = Read
  /\ IF ConfigFallsBack(config)
     THEN ModeChange(db, userId, TRUE, TRUE) /\ authNotify' = FALSE
     ELSE ModeChange(TRUE, userId, isReady, isDemoMode) /\ authNotify' = TRUE
  /\ UNCHANGED <<docVars, renderVars, authUser, signIn, store, turnVars>>
  /\ Effects

\* The onAuthStateChanged callback, up to its await: with a user, setUserId
\* and setIsReady; without, the sign-in is started.
AuthStateChanged ==
  /\ config = Read
  /\ authNotify
  /\ authNotify' = FALSE
  /\ IF authUser # NoUser
     THEN /\ ModeChange(db, authUser, TRUE, isDemoMode)
          /\ signIn' = signIn
     ELSE /\ signIn = "none"
          /\ signIn' = "pending"
          /\ UNCHANGED <<modeVars, viewVars, createVars, subVars>>
  /\ UNCHANGED <<docVars, renderVars, config, authUser, store, turnVars>>
  /\ Effects

\* signInWithCustomToken / signInAnonymously resolves. The provider calls
\* the listener with the new user (setUserId, setIsReady) before the awaiting
\* callback resumes (setIsReady), all within one task.
SignInResolves ==
  /\ signIn = "pending"
  /\ signIn' = "none"
  /\ authUser' = Uid
  /\ ModeChange(db, Uid, TRUE, isDemoMode)
  /\ UNCHANGED <<docVars, renderVars, config, authNotify, store, turnVars>>
  /\ Effects

\* The provider drops the signed-in user (token revoked, account removed):
\* the auth-state listener is due again, this time without a user.
IdentityLost ==
  /\ config = Read
  /\ db
  /\ authUser # NoUser
  /\ ~authNotify
  /\ signIn = "none"
  /\ authUser' = NoUser
  /\ authNotify' = TRUE
  /\ UNCHANGED <<docVars, renderVars, config, signIn, modeVars, viewVars, subVars, createVars,
                 store, turnVars>>
  /\ Effects

\* AuthFallback without setIsReady(true).
AuthFallbackNotReady == [demo |-> TRUE, ready |-> FALSE]

\* What the callback sets when the sign-in throws: isDemoMode, then isReady.
AuthFallback == [demo |-> TRUE, ready |-> TRUE]

\* The sign-in throws.
SignInThrows ==
  /\ signIn = "pending"
  /\ signIn' = "none"
  /\ ModeChange(db, userId, AuthFallback.ready, AuthFallback.demo)
  /\ UNCHANGED <<docVars, renderVars, config, authUser, authNotify, store, turnVars>>
  /\ Effects

\* ------------------------------------------- fetchPerceptionAndLuaExamples
\* Texts are sequences of tokens; '' is the empty sequence.
luaFiles ==
  <<"DayZ.lua", "delta_force.lua", "fortnite.lua", "lagger.lua",
    "ragemp.lua", "roblox.lua", "rust.lua">>

FetchDone == Len(luaFiles) + 1

\* The body of a fetched file.
TextOf(file) == <<"text of", file>>

PerceptionError ==
  <<"Error loading Perception.txt. Please ensure it's in the same directory as index.html.">>

\* What examplesCombined gains from a file that loaded, and from one that
\* did not.
ExampleBlock(file) == <<"-- Content from", file, ":">> \o TextOf(file)
ExampleError(file) == <<"Error loading", file, ".">>

\* The fetch of Perception.txt settles. On success the text is stored; on a
\* rejected fetch or a non-2xx status the catch block logs and appends the
\* placeholder to the local combinedContent, which nothing reads.
FetchPerception ==
  /\ fetchPc = 0
  /\ \E ok \in BOOLEAN :
       perceptionDocContent' =
         IF ok THEN TextOf("Perception.txt") ELSE perceptionDocContent
  /\ fetchPc' = 1
  /\ UNCHANGED <<authVars, modeVars, viewVars, subVars, createVars, store,
                 turnVars, renderVars, listeners, luaExamplesContent,
                 examplesCombined>>

\* The fetch of the next example file settles; after the last one the
\* combined text is stored.
FetchExample ==
  /\ fetchPc \in 1..Len(luaFiles)
  /\ \E ok \in BOOLEAN :
       examplesCombined' =
         examplesCombined \o (IF ok THEN ExampleBlock(luaFiles[fetchPc])
                              ELSE ExampleError(luaFiles[fetchPc]))
  /\ fetchPc' = fetchPc + 1
  /\ luaExamplesContent' =
       IF fetchPc' = FetchDone THEN examplesCombined' ELSE luaExamplesContent
  /\ UNCHANGED <<authVars, modeVars, viewVars, subVars, createVars, store,
                 turnVars, renderVars, listeners, perceptionDocContent>>

\* ------------------------------------------------------- store listeners
\* A snapshot of the session collection reaches the listener of the session
\* effect. The listener reads the currentSessionId and the
\* createNewChatSession of the render that registered it.
SessionsSnapshot ==
  /\ SessionsSub
  /\ firstSnapshot' = TRUE
  /\ chatSessions' = store
  /\ IF snapCurrentSessionId = NoSession /\ Len(store) > 0
     THEN /\ currentSessionId' = store[1].id
          /\ UNCHANGED <<loading, createVars>>
     ELSE IF store = <<>>
          THEN CreateIssue(TRUE) /\ UNCHANGED currentSessionId
          ELSE UNCHANGED <<currentSessionId, loading, createVars>>
  /\ UNCHANGED <<docVars, renderVars, authVars, modeVars, messages, input, snapCurrentSessionId,
                 store, turnVars>>
  /\ Effects

\* What a document snapshot carries: whether the document exists, whether
\* its data has a messages field, whether the field's value is an array, and
\* the entries of that value.
DocSnap(exists, hasField, isArray, items) ==
  [exists |-> exists, hasField |-> hasField, isArray |-> isArray,
   items |-> items]

\* The snapshot of the document the store holds under id. The documents this
\* program writes carry an array (lines 160-165 and 286-289, 339-342).
StoredDoc(id) ==
  IF HasSession(store, id)
  THEN DocSnap(TRUE, TRUE, TRUE, SessionOf(store, id).messages)
  ELSE DocSnap(FALSE, FALSE, FALSE, <<>>)

DocMessagesNoArrayTest(docSnap) ==
  IF docSnap.exists THEN docSnap.items ELSE <<>>

\* The listener's argument to setMessages.
DocMessages(docSnap) ==
  IF docSnap.exists
  THEN IF docSnap.hasField /\ docSnap.isArray THEN docSnap.items ELSE <<>>
  ELSE <<>>

\* The listener of the message effect applied to one snapshot.
OnDocSnapshot(docSnap) ==
  /\ DocSub # NoSession
  /\ messages' = DocMessages(docSnap)
  /\ messages' # messages
  /\ UNCHANGED <<docVars, renderVars, authVars, modeVars, chatSessions, currentSessionId, input,
                 loading, subVars, createVars, store, turnVars>>
  /\ Effects

\* A snapshot of the current session's document reaches the listener of the
\* message effect.
DocSnapshot == OnDocSnapshot(StoredDoc(DocSub))

\* Snapshots of a document that another writer deleted, stripped of its
\* messages field, or gave a messages field that is not an array (here a map
\* with one entry). The writer's change is not kept in store: a later
\* snapshot may again carry the document this program wrote.
ForeignDocs ==
  { DocSnap(FALSE, FALSE, FALSE, <<>>),
    DocSnap(TRUE, FALSE, FALSE, <<>>),
    DocSnap(TRUE, TRUE, FALSE,
            <<[sender |-> "user", text |-> <<"a">>, timestamp |-> 1]>>) }

ForeignDocSnapshot == \E docSnap \in ForeignDocs : OnDocSnapshot(docSnap)

\* selectChatSession without the Demo-mode setMessages.
selectChatSessionKeepsMessages(sessionId) ==
  /\ currentSessionId' = sessionId
  /\ UNCHANGED <<docVars, renderVars, authVars, modeVars, chatSessions, messages, input,
                 loading, subVars, createVars, store, turnVars>>
  /\ Effects

\* ------------------------------------------------------ selectChatSession
selectChatSession(sessionId) ==
  /\ currentSessionId' = sessionId
  /\ messages' = IF isDemoMode /\ HasSession(chatSessions, sessionId)
                 THEN SessionOf(chatSessions, sessionId).messages
                 ELSE messages
  /\ UNCHANGED <<docVars, renderVars, authVars, modeVars, chatSessions, input, loading, subVars,
                 createVars, store, turnVars>>
  /\ Effects

\* A click on an entry of the session list.
SelectSession ==
  \E i \in 1..Len(chatSessions) :
    /\ chatSessions[i].id # currentSessionId
    /\ selectChatSession(chatSessions[i].id)

\* The input box's onChange; the box is disabled while loading.
SetInput ==
  /\ ~loading
  /\ \E v \in Inputs : v # input /\ input' = v
  /\ UNCHANGED <<docVars, renderVars, authVars, modeVars, chatSessions, currentSessionId, messages,
                 loading, subVars, createVars, store, turnVars>>
  /\ Effects

\* ------------------------------------------------------ handleSendMessage
UserMessage(text, n) == [sender |-> "user", text |-> text, timestamp |-> n]
AiMessage(text, n) == [sender |-> "ai", text |-> text, timestamp |-> n]

\* The text of the first payload entry: the system prompt, then the two
\* reference texts (perceptionDocContent, luaExamplesContent) under their
\* headings, as the template literal joins them.
SystemPrompt == "systemPrompt"
ContextOf(doc, examples) ==
  <<SystemPrompt, "Perception.cx API Documentation:">> \o doc
  \o <<"Lua Code Examples for Learning:">> \o examples
ContextText == ContextOf(perceptionDocContent, luaExamplesContent)
SystemEntry == [role |-> "user", text |-> ContextText]

\* The fixed acknowledgement entry.
AckText == <<"Understood. I will strictly adhere to Lua 5.4 and the Perception.cx API documentation and provided examples">>
AckEntry == [role |-> "model", text |-> AckText]

\* msg.sender === 'user' ? 'user' : 'model'
Role(sender) == IF sender = "user" THEN "user" ELSE "model"

\* Contents that sends the context only with the first message of a session.
ContentsFirstTurnOnly(updatedMessages) ==
  (IF Len(updatedMessages) = 1 THEN <<SystemEntry, AckEntry>> ELSE <<>>)
  \o [i \in 1..Len(updatedMessages) |->
        [role |-> Role(updatedMessages[i].sender), text |-> updatedMessages[i].text]]

\* contents: the two fixed entries, then updatedMessages mapped to roles.
Contents(updatedMessages) ==
  <<SystemEntry, AckEntry>>
  \o [i \in 1..Len(updatedMessages) |->
        [role |-> Role(updatedMessages[i].sender), text |-> updatedMessages[i].text]]

\* SendIgnored without the loading test.
SendIgnoredNoLoading == Trim(input) = <<>> \/ currentSessionId = NoSession

\* The guard of handleSendMessage: the call is ignored when it holds.
SendIgnored == Trim(input) = <<>> \/ loading \/ currentSessionId = NoSession

\* FirstPc without the await of the user-message updateDoc.
FirstPcNoAwait == "generate"

\* What an accepted call does before its first await: in Demo mode the
\* message is saved and the generation call issued, in Firestore mode
\* updateDoc is issued, otherwise only the generation call.
FirstPc == IF ~isDemoMode /\ db /\ userId # NoUser THEN "userWrite" ELSE "generate"

\* The appends and adapter calls of an accepted call up to its first await.
FirstLog ==
  <<"appendUser">>
  \o (IF isDemoMode THEN <<"writeUser", "writeUserDone">>
      ELSE IF db /\ userId # NoUser THEN <<"writeUser">> ELSE <<>>)
  \o (IF FirstPc = "generate" THEN <<"generate">> ELSE <<>>)

\* The turn started by an accepted call: its number n, its closure
\* (currentSessionId, chatSessions, isDemoMode, db && userId), its
\* updatedMessages and later finalMessages (list), its position (pc), the
\* contents its closure yields (prepared: updatedMessages and the two
\* reference texts of the calling render), the payload of its generation
\* call once issued (contents) and the appends and adapter calls it has made
\* so far (log).
NewTurn(n, updated) ==
  [ n |-> n,
    pc |-> FirstPc,
    sid |-> currentSessionId,
    list |-> updated,
    sessions |-> IF isDemoMode THEN chatSessions ELSE <<>>,
    demo |-> isDemoMode,
    persist |-> db /\ userId # NoUser,
    prepared |-> Contents(updated),
    contents |-> IF FirstPc = "generate" THEN Contents(updated) ELSE <<>>,
    log |-> FirstLog ]

handleSendMessage ==
  IF SendIgnored
  THEN UNCHANGED vars
  ELSE /\ nTurns < MaxTurns
       /\ LET updatedMessages ==
                Append(messages, UserMessage(Trim(input), nTurns + 1))
          IN /\ messages' = updatedMessages
             /\ input' = <<>>
             /\ loading' = TRUE
             /\ chatSessions' =
                  IF isDemoMode
                  THEN MapMessages(chatSessions, currentSessionId, updatedMessages)
                  ELSE chatSessions
             /\ turns' = turns \cup {NewTurn(nTurns + 1, updatedMessages)}
       /\ nTurns' = nTurns + 1
       /\ UNCHANGED <<authVars, modeVars, currentSessionId, subVars,
                      createVars, store, docVars, renderVars>>
       /\ Effects

\* updateDoc(sessionDocRef, {messages, updatedAt}) applied to the store.
UpdateDoc(docs, id, msgs) ==
  <<[id |-> id, messages |-> msgs]>> \o Without(docs, id)

\* What a step of a turn leaves alone besides the view, the store and turns.
TurnFrame ==
  /\ UNCHANGED <<docVars, renderVars, authVars, modeVars, currentSessionId, input, subVars,
              createVars, nTurns>>
  /\ Effects

\* Turn t moves on to pc with list, having done events.
Advance(t, pc, list, events) ==
  turns' = (turns \ {t}) \cup
           {[t EXCEPT !.pc = pc, !.list = list, !.log = t.log \o events]}

\* Turn t is past its user-message write: contents is built and the
\* generation call issued.
ToGenerate(t) ==
  turns' = (turns \ {t}) \cup
           {[t EXCEPT !.pc = "generate",
                      !.contents = t.prepared,
                      !.log = t.log \o <<"writeUserDone", "generate">>]}

\* Turn t ends (the finally block has run).
Finish(t) == turns' = turns \ {t}

\* A write that goes to the session current when it is made.
WriteTargetCurrent(t) == currentSessionId

\* The session a write of turn t goes to: the currentSessionId of the
\* closure of the call.
WriteTarget(t) == t.sid

\* The user-message updateDoc resolves; the generation call is issued.
UserWriteResolves(t) ==
  /\ t.pc = "userWrite"
  /\ HasSession(store, WriteTarget(t))
  /\ store' = UpdateDoc(store, WriteTarget(t), t.list)
  /\ ToGenerate(t)
  /\ UNCHANGED <<chatSessions, messages, loading>>
  /\ TurnFrame

\* UserWriteThrows that gives the turn up.
UserWriteThrowsAborts(t) ==
  /\ t.pc = "userWrite"
  /\ loading' = FALSE
  /\ Finish(t)
  /\ UNCHANGED <<chatSessions, messages, store>>
  /\ TurnFrame

\* The user-message updateDoc rejects: logged; the generation call is issued.
UserWriteThrows(t) ==
  /\ t.pc = "userWrite"
  /\ ToGenerate(t)
  /\ UNCHANGED <<chatSessions, messages, loading, store>>
  /\ TurnFrame

\* undefined; like the empty string it is falsy for the || of line 323.
Undefined == <<>>

\* The parsed body of a 2xx answer, as far as the optional chain reads it.
FullBody ==
  [candidates |-> "one", content |-> TRUE, parts |-> "one", text |-> ReplyText]
Body(resp) ==
  CASE resp = "text" -> FullBody
    [] resp = "noCandidates" -> [FullBody EXCEPT !.candidates = "missing"]
    [] resp = "emptyCandidates" -> [FullBody EXCEPT !.candidates = "empty"]
    [] resp = "noContent" -> [FullBody EXCEPT !.content = FALSE]
    [] resp = "noParts" -> [FullBody EXCEPT !.parts = "missing"]
    [] resp = "emptyParts" -> [FullBody EXCEPT !.parts = "empty"]
    [] resp = "noText" -> [FullBody EXCEPT !.text = Undefined]

\* result.candidates?.[0]?.content?.parts?.[0]?.text
ExtractText(body) ==
  IF body.candidates # "one" THEN Undefined
  ELSE IF ~body.content THEN Undefined
  ELSE IF body.parts # "one" THEN Undefined
  ELSE body.text

\* AiResponseText without the response.ok test.
AiResponseTextNoStatusTest(resp) ==
  IF resp = "http500" THEN Apology
  ELSE LET text == ExtractText(Body(resp))
       IN IF text = Undefined THEN Apology ELSE text

\* aiResponseText for a response that did not throw.
AiResponseText(resp) ==
  IF resp = "http500" THEN ConnError
  ELSE LET text == ExtractText(Body(resp))
       IN IF text = Undefined THEN Apology ELSE text

\* Throws as it would be without the optional chaining on candidates.
ThrowsOnMissingCandidates(resp) ==
  resp \in {"rejected", "badJson", "nullBody", "noCandidates"}

\* The generation call throws when fetch rejects, when response.json()
\* fails, and when the parsed body is null (result.candidates on null).
Throws(resp) == resp \in {"rejected", "badJson", "nullBody"}

\* The generation call completes with resp.
GenerateCompletes(t, resp) ==
  /\ t.pc = "generate"
  /\ IF Throws(resp)
     THEN /\ loading' = FALSE
          /\ Finish(t)
          /\ UNCHANGED <<chatSessions, messages>>
     ELSE LET finalMessages == Append(t.list, AiMessage(AiResponseText(resp), t.n))
          IN /\ messages' = finalMessages
             /\ IF t.demo
                THEN /\ chatSessions' =
                          MapMessages(t.sessions, WriteTarget(t), finalMessages)
                     /\ loading' = FALSE
                     /\ Finish(t)
                ELSE IF t.persist
                THEN /\ Advance(t, "aiWrite", finalMessages, <<"appendAi", "writeAi">>)
                     /\ UNCHANGED <<chatSessions, loading>>
                ELSE /\ loading' = FALSE
                     /\ Finish(t)
                     /\ UNCHANGED chatSessions
  /\ UNCHANGED store
  /\ TurnFrame

\* The AI-message updateDoc resolves.
AiWriteResolves(t) ==
  /\ t.pc = "aiWrite"
  /\ HasSession(store, WriteTarget(t))
  /\ store' = UpdateDoc(store, WriteTarget(t), t.list)
  /\ loading' = FALSE
  /\ Finish(t)
  /\ UNCHANGED <<chatSessions, messages>>
  /\ TurnFrame

\* AiWriteThrows that takes the AI message back from the display.
AiWriteThrowsRollsBack(t) ==
  /\ t.pc = "aiWrite"
  /\ messages' = SubSeq(t.list, 1, Len(t.list) - 1)
  /\ loading' = FALSE
  /\ Finish(t)
  /\ UNCHANGED <<chatSessions, store>>
  /\ TurnFrame

\* AiWriteThrows without the finally block.
AiWriteThrowsNoFinally(t) ==
  /\ t.pc = "aiWrite"
  /\ Finish(t)
  /\ UNCHANGED <<chatSessions, messages, loading, store>>
  /\ TurnFrame

\* The AI-message updateDoc rejects: caught and logged.
AiWriteThrows(t) ==
  /\ t.pc = "aiWrite"
  /\ loading' = FALSE
  /\ Finish(t)
  /\ UNCHANGED <<chatSessions, messages, store>>
  /\ TurnFrame

UserWrite == \E t \in turns : UserWriteResolves(t) \/ UserWriteThrows(t)
Generate == \E t \in turns : \E resp \in Responses : GenerateCompletes(t, resp)
AiWrite == \E t \in turns : AiWriteResolves(t) \/ AiWriteThrows(t)

\* ------------------------------------------------------------------- Spec
Next ==
  \/ InitEffect
  \/ AuthStateChanged
  \/ SignInResolves
  \/ SignInThrows
  \/ createNewChatSession
  \/ CreateResolves
  \/ CreateThrows
  \/ SessionsSnapshot
  \/ DocSnapshot
  \/ SelectSession
  \/ SetInput
  \/ handleSendMessage
  \/ UserWrite
  \/ Generate
  \/ AiWrite

Spec == Init /\ [][Next]_vars

\* The runs checked for progress: those that accept at most MaxLiveTurns
\* turns, in which each external call a turn awaits eventually completes.
FairNext ==
  \/ InitEffect
  \/ AuthStateChanged
  \/ SignInResolves
  \/ SignInThrows
  \/ createNewChatSession
  \/ CreateResolves
  \/ CreateThrows
  \/ SessionsSnapshot
  \/ DocSnapshot
  \/ SelectSession
  \/ SetInput
  \/ handleSendMessage /\ nTurns' <= MaxLiveTurns
  \/ UserWrite
  \/ Generate
  \/ AiWrite

FairSpec ==
  Init /\ [][FairNext]_vars /\ WF_vars(UserWrite \/ Generate \/ AiWrite)

\* ---------------------------------------------------- renderMessageContent
\* Message texts handed to the renderer are sequences of characters.
BT == "backtick"
Fence == <<BT, BT, BT>>
Alnum == {"a", "l", "5"}          \* [a-zA-Z0-9]

StartsWith(s, p) == Len(s) >= Len(p) /\ SubSeq(s, 1, Len(p)) = p
FenceAt(s, i) == i >= 1 /\ i + 2 <= Len(s) /\ SubSeq(s, i, i + 2) = Fence
Least(S) == CHOOSE x \in S : \A y \in S : x <= y

\* Length of the run of [a-zA-Z0-9] that starts at i.
RECURSIVE AlnumRun(_, _)
AlnumRun(s, i) ==
  IF i <= Len(s) /\ s[i] \in Alnum THEN 1 + AlnumRun(s, i + 1) ELSE 0

\* The opening (three backticks, an optional run of [a-zA-Z0-9], \n) matched
\* at i: the place of its \n, else 0.
OpenEnd(s, i) ==
  IF FenceAt(s, i)
  THEN LET j == i + 3 + AlnumRun(s, i + 3)
       IN IF j <= Len(s) /\ s[j] = NL THEN j ELSE 0
  ELSE 0

\* The lazy body and the closing (\n, three backticks) matched after the
\* opening that ends at j: the place of the last backtick of the nearest
\* closing, else 0.
CloseEnd(s, j) ==
  LET C == {e \in (j + 1)..Len(s) : s[e] = NL /\ FenceAt(s, e + 1)}
  IN IF C = {} THEN 0 ELSE Least(C) + 3

\* The whole pattern matched at i: the place of its last character, else 0.
MatchEnd(s, i) == IF OpenEnd(s, i) = 0 THEN 0 ELSE CloseEnd(s, OpenEnd(s, i))

\* text.split(/(...)/g) from place i on: the text before each match, the
\* match itself, and the rest after the last match.
RECURSIVE SplitFrom(_, _)
SplitFrom(s, i) ==
  LET M == {m \in i..Len(s) : MatchEnd(s, m) # 0}
  IN IF M = {} THEN <<SubSeq(s, i, Len(s))>>
     ELSE LET m == Least(M)
              e == MatchEnd(s, m)
          IN <<SubSeq(s, i, m - 1), SubSeq(s, m, e)>> \o SplitFrom(s, e + 1)

\* codeContent that drops only the three backticks at either end.
CodeContentKeepsTag(part) == SubSeq(part, 4, Len(part) - 3)

\* part.replace(opening or three backticks, '') from place i on.
RECURSIVE CodeContentFrom(_, _)
CodeContentFrom(s, i) ==
  IF i > Len(s) THEN <<>>
  ELSE IF OpenEnd(s, i) # 0 THEN CodeContentFrom(s, OpenEnd(s, i) + 1)
       ELSE IF FenceAt(s, i) THEN CodeContentFrom(s, i + 3)
            ELSE <<s[i]>> \o CodeContentFrom(s, i + 1)

CodeContent(part) == CodeContentFrom(part, 1)

\* The element made of one part: a code block with codeContent, a heading
\* with the trimmed rest of the part, or a paragraph with the part.
Segment(part) ==
  IF StartsWith(part, Fence)
  THEN [kind |-> "code", content |-> CodeContent(part)]
  ELSE IF StartsWith(part, <<"#", "#", SP>>)
       THEN [kind |-> "h2", content |-> Trim(SubSeq(part, 4, Len(part)))]
       ELSE [kind |-> "p", content |-> part]

renderMessageContent(text) ==
  LET parts == SplitFrom(text, 1)
  IN [i \in 1..Len(parts) |-> Segment(parts[i])]

\* Texts the renderer is given: plain text without a fence, and a fenced
\* block (opening fence, language tag, line end, body, line end, closing
\* fence) between two plain texts.
Plains ==
  { <<>>, <<"a">>, <<"a", NL>>, <<"#", "#", SP, "a", NL>>, <<BT, "a", BT>> }
Langs == { <<>>, <<"l">>, <<"l", "5">> }
Bodies == { <<>>, <<"a">>, <<"a", NL, "a">>, <<BT>> }
FencedText(before, lang, body, after) ==
  before \o Fence \o lang \o <<NL>> \o body \o <<NL>> \o Fence \o after
RenderTexts ==
  Plains \cup { FencedText(p1, l, b, p2) :
                  p1 \in Plains, l \in Langs, b \in Bodies, p2 \in Plains }

\* A message text is rendered.
Render ==
  /\ rendered = <<>>
  /\ rendered' = renderMessageContent(renderText)
  /\ UNCHANGED <<authVars, modeVars, viewVars, subVars, createVars, store,
                 turnVars, docVars, listeners, renderText>>

\* The renderer alone, on each of RenderTexts.
RenderInit ==
  /\ Constructed
  /\ config = "absent" /\ authUser = NoUser
  /\ renderText \in RenderTexts

RenderNext == Render

RenderSpec == RenderInit /\ [][RenderNext]_vars

\* The runs of the reference-text loader beside the init effect, the "new
\* chat" button, the input box and the Demo-mode part of a turn (at most
\* MaxLiveTurns turns accepted).
LoadNext ==
  \/ FetchPerception
  \/ FetchExample
  \/ InitEffect
  \/ createNewChatSession
  \/ SetInput
  \/ handleSendMessage /\ nTurns' <= MaxLiveTurns
  \/ Generate

LoadSpec == Init /\ [][LoadNext]_vars

\* The runs in which another writer may change the stored documents (at most
\* MaxLiveTurns turns accepted).
DocNext == FairNext \/ ForeignDocSnapshot

DocSpec == Init /\ [][DocNext]_vars

\* The runs in which the provider may drop the signed-in user at any time
\* (at most MaxLiveTurns turns accepted).
AuthNext == FairNext \/ IdentityLost

AuthSpec == Init /\ [][AuthNext]_vars

\* ----------------------------------------------------------------- claims
IsPrefix(s, t) == Len(s) <= Len(t) /\ SubSeq(t, 1, Len(s)) = s
InFlight(n) == \E t \in turns : t.n = n
\* e occurs in log only after a.
Before(log, a, e) ==
  \A j \in 1..Len(log) : log[j] = e => \E i \in 1..(j - 1) : log[i] = a
\* The step ends turn t.
Ends(t) == t \in turns /\ ~(\E u \in turns' : u.n = t.n)
\* The displayed list holds turn n's message of sender.
Shows(list, sender, n) ==
  \E i \in 1..Len(list) : list[i].sender = sender /\ list[i].timestamp = n

\* C1: every accepted send appends one user message and, by the time the
\* turn ends, one AI message after it, whatever the outcome of the writes
\* and of the generation call. As stated: a turn never ends without having
\* appended its AI message.
C1_TurnEndsWithAiMessage ==
  [][\A t \in turns :
       Ends(t) =>
         \/ \E i \in 1..Len(t.log) : t.log[i] = "appendAi"
         \/ Shows(messages', "ai", t.n)]_vars

\* C2: a send is a no-op when the trimmed input is empty, loading is true or
\* there is no current session: from such a state no turn is accepted, and a
\* step of handleSendMessage changes nothing (state, store, turns in flight).
C2_SendBlockedIsNoOp ==
  [][(Trim(input) = <<>> \/ loading \/ currentSessionId = NoSession)
       => /\ nTurns' = nTurns
          /\ handleSendMessage => UNCHANGED vars]_vars

\* C2 witness: a non-blank input and a current session, blocked by loading alone.
C2_Witness == Trim(input) # <<>> /\ loading /\ currentSessionId # NoSession

\* C3: loading is changed only by steps of a send-message turn; it is true
\* while a turn is in flight, and at most one turn is in flight.
C3_LoadingOnlyByTurn ==
  [][/\ loading' # loading => turns' # turns
     /\ turns' # {} => loading'
     /\ Cardinality(turns') <= 1]_vars

\* C4: accepting a turn raises loading; every step that ends a turn, on any
\* exit path, lowers it; and every turn in flight ends once the calls it
\* awaits complete.
C4_LoadingRaisedAndLowered ==
  /\ [][/\ nTurns' # nTurns => loading'
        /\ \A t \in turns : Ends(t) => ~loading']_vars
  /\ \A n \in 1..MaxLiveTurns : InFlight(n) ~> (~InFlight(n) /\ ~loading)

\* C4 witness: a turn awaiting its AI-message write, loading still raised.
C4_Witness == loading /\ \E t \in turns : t.pc = "aiWrite"

\* C5: a turn issues its calls in the order user-message write, generation
\* call, AI-message write: the generation call only after the user-message
\* write was issued and has completed, the AI-message write only after both.
C5_WriteGenerateWriteOrder ==
  \A t \in turns :
    /\ (t.demo \/ t.persist) =>
         (t.pc = "generate" => \E i \in 1..Len(t.log) : t.log[i] = "writeUserDone")
    /\ Before(t.log, "writeUser", "writeUserDone")
    /\ (t.demo \/ t.persist) => Before(t.log, "writeUserDone", "generate")
    /\ Before(t.log, "generate", "writeAi")
    /\ Before(t.log, "writeUser", "writeAi")

\* C5 witness: a persisted turn that has issued all three calls.
C5_Witness ==
  \E t \in turns :
    t.persist /\ t.pc = "aiWrite" /\ t.log[Len(t.log)] = "writeAi"

\* C6: every new value of a session's stored message list (store document
\* in Firestore mode, chatSessions record in Demo mode) has the previous
\* stored list as a prefix.
C6_StoredListAppendOnly ==
  [][/\ \A i \in 1..Len(store) : \A j \in 1..Len(store') :
          store[i].id = store'[j].id
            => IsPrefix(store[i].messages, store'[j].messages)
     /\ (isDemoMode /\ isDemoMode') =>
          \A i \in 1..Len(chatSessions) : \A j \in 1..Len(chatSessions') :
            chatSessions[i].id = chatSessions'[j].id
              => IsPrefix(chatSessions[i].messages, chatSessions'[j].messages)]_vars

\* C7: at most one session is ever created by the session effect, however
\* many empty snapshots of the collection are delivered.
C7_OneAutoCreation == autoCreated <= 1

\* C8: once ready, in Demo mode, or in Firestore mode after the first
\* snapshot with no creation pending, there is a current session.
C8_ActiveSessionExists ==
  (isReady /\ (isDemoMode \/ firstSnapshot) /\ creating = 0 /\ autoCreating = 0)
    => currentSessionId # NoSession

\* C9: a step that creates a session, in either mode, makes it the current
\* session with an empty stored message list and empties the displayed list.
C9_CreatedSessionEmptyAndCurrent ==
  [][nextId' # nextId =>
       /\ currentSessionId' = nextId
       /\ messages' = <<>>
       /\ LET list == IF isDemoMode' THEN chatSessions' ELSE store'
          IN HasSession(list, nextId) /\ SessionOf(list, nextId).messages = <<>>]_vars

\* C9 witness: a second session was just created after a message was sent in
\* the first; it is current and the display is empty.
C9_Witness ==
  /\ nextId > 2 /\ currentSessionId = nextId - 1 /\ messages = <<>>
  /\ nTurns > 0
  /\ LET list == IF isDemoMode THEN chatSessions ELSE store
     IN \E i \in 1..Len(list) : list[i].messages # <<>>

\* C10: the init effect reading an absent or malformed configuration or one
\* without projectId, and a sign-in that throws, each leave the application
\* in Demo mode and ready; the application is not ready only while the auth
\* callback or its sign-in is still due.
C10_FallsBackToDemoAndReady ==
  /\ [][(\/ config \in {"absent", "malformed", "noProjectId"} /\ config' = Read
         \/ signIn = "pending" /\ signIn' = "none" /\ authUser' = NoUser)
          => isDemoMode' /\ isReady']_vars
  /\ []((config = Read /\ ~isReady) => (authNotify \/ signIn = "pending"))

\* C10 witness: Demo mode reached from a valid configuration by a sign-in
\* that threw.
C10_Witness == isDemoMode /\ isReady /\ db /\ config = Read

\* C11: once readiness has been signaled the mode flag never changes, also
\* when the auth-state callback fires again later, so that every session and
\* message mutation uses one mode's storage strategy.
C11_ModeConstantOnceReady ==
  [][isReady => isDemoMode' = isDemoMode]_vars

\* C12: isReady never returns from true to false, and while it is false no
\* session has been created or requested, no store listener is registered,
\* no store write has been issued and no turn accepted.
C12_ReadinessGate ==
  /\ [][isReady => isReady']_vars
  /\ [](~isReady =>
         /\ nextId = 1 /\ creating = 0 /\ autoCreating = 0
         /\ chatSessions = <<>> /\ currentSessionId = NoSession
         /\ store = <<>> /\ nTurns = 0 /\ turns = {}
         /\ ~SessionsSub /\ DocSub = NoSession
         /\ ~firstSnapshot)

\* C12 witness: not ready yet with the store handle set and the sign-in
\* pending, the user already typing (the controls are rendered).
C12_Witness == ~isReady /\ db /\ signIn = "pending" /\ Trim(input) # <<>>

\* C13: the payload of every generation call, on every turn and for any
\* history length, is the system entry (role user, system prompt plus
\* reference text), the acknowledgement entry (role model, fixed text), then
\* every message of the history up to and including the turn's own user
\* message, in order, with role user for sender user and model otherwise.
C13_PayloadShape ==
  \A t \in turns :
    t.pc = "generate" =>
      LET c == t.contents
          h == t.list
      IN /\ Len(c) = Len(h) + 2
         /\ c[1].role = "user"
         /\ IsPrefix(<<SystemPrompt, "Perception.cx API Documentation:">>,
                     c[1].text)
         /\ \E k \in 3..Len(c[1].text) :
              c[1].text[k] = "Lua Code Examples for Learning:"
         /\ c[2].role = "model" /\ c[2].text = AckText
         /\ \A i \in 1..Len(h) :
              /\ c[i + 2].text = h[i].text
              /\ c[i + 2].role = (IF h[i].sender = "user" THEN "user" ELSE "model")
         /\ h[Len(h)].sender = "user" /\ h[Len(h)].timestamp = t.n

\* C13 witness: a generation call in flight on a later turn, its history
\* already holding an AI message.
C13_Witness ==
  \E t \in turns :
    /\ t.pc = "generate" /\ Len(t.list) >= 3
    /\ \E i \in 1..Len(t.list) : t.list[i].sender = "ai"

\* C14: when the endpoint answers with a non-2xx status the turn appends an
\* AI message with the connectivity-error text, and loading is lowered when
\* the turn ends: at once, or when the AI-message write it then issues
\* completes.
C14_Non2xxGivesConnError ==
  [][\A t \in turns :
       /\ GenerateCompletes(t, "http500") =>
            /\ messages' = Append(t.list, AiMessage(ConnError, t.n))
            /\ IF Ends(t) THEN ~loading'
               ELSE \E u \in turns' : u.n = t.n /\ u.pc = "aiWrite"
       /\ (t.pc = "aiWrite" /\ Ends(t)) => ~loading']_vars

\* C14 witness: a finished turn whose AI message is the connectivity error,
\* loading lowered.
C14_Witness ==
  /\ ~loading /\ turns = {} /\ messages # <<>>
  /\ messages[Len(messages)].sender = "ai"
  /\ messages[Len(messages)].text = ConnError

\* C15: when the endpoint answers 2xx with a body in which candidates is
\* missing or empty, or content, parts or text is missing, the turn takes
\* the non-throwing path and appends an AI message with the apology text.
C15_ShapeMismatchGivesApology ==
  [][\A t \in turns : \A resp \in Malformed :
       GenerateCompletes(t, resp) =>
         /\ messages' = Append(t.list, AiMessage(Apology, t.n))
         /\ t.persist => \E u \in turns' : u.n = t.n /\ u.pc = "aiWrite"]_vars

\* C15 witness: a finished turn whose AI message is the apology.
C15_Witness ==
  /\ turns = {} /\ messages # <<>>
  /\ messages[Len(messages)].sender = "ai"
  /\ messages[Len(messages)].text = Apology

\* C16: every completion of the generation call, failures included, appends
\* an AI message of the turn to the transcript.
C16_GenerationAlwaysAnswered ==
  [][\A t \in turns :
       (t.pc = "generate" /\ t \notin turns') => Shows(messages', "ai", t.n)]_vars

\* C17: in Demo mode, whenever no turn is in flight, the chatSessions record
\* of the current session exists and its messages equal the displayed list.
C17_DemoRecordEqualsDisplay ==
  (isDemoMode /\ isReady /\ turns = {}) =>
    /\ HasSession(chatSessions, currentSessionId)
    /\ SessionOf(chatSessions, currentSessionId).messages = messages

\* C18: a turn leaves its user-message write only by issuing the generation
\* call, whether the write resolved or was rejected; it never ends there.
C18_GenerateAfterWriteAttempt ==
  [][\A t \in turns :
       /\ t.pc = "userWrite" =>
            \/ t \in turns'
            \/ \E u \in turns' :
                 u.n = t.n /\ u.pc = "generate" /\ u.contents # <<>>
       /\ (UserWriteThrows(t) \/ UserWriteResolves(t)) =>
            \E u \in turns' :
              /\ u.n = t.n /\ u.pc = "generate"
              /\ u.log[Len(u.log)] = "generate"]_vars

\* C18 witness: a generation call in flight although the store document of
\* the turn's session never received the user message.
C18_Witness ==
  \E t \in turns :
    /\ t.persist /\ t.pc = "generate"
    /\ HasSession(store, t.sid)
    /\ SessionOf(store, t.sid).messages = <<>>

\* C19: a rejected write leaves the displayed list as it was, so a message
\* displayed before the failure is displayed right after it; after a
\* rejected user-message write the turn goes on, after a rejected AI-message
\* write it ends as it does after a successful one.
C19_FailedWriteKeepsDisplay ==
  [][\A t \in turns :
       /\ UserWriteThrows(t) =>
            /\ messages' = messages
            /\ Shows(messages, "user", t.n) => Shows(messages', "user", t.n)
            /\ \E u \in turns' : u.n = t.n
       /\ AiWriteThrows(t) =>
            /\ messages' = messages
            /\ Shows(messages, "ai", t.n) => Shows(messages', "ai", t.n)
            /\ ~loading']_vars

\* C19 witness: in Firestore mode, no turn in flight, an AI message is
\* displayed that no store document holds.
C19_Witness ==
  /\ ~isDemoMode /\ turns = {}
  /\ \E n \in 1..MaxTurns :
       /\ Shows(messages, "ai", n)
       /\ \A i \in 1..Len(store) : ~Shows(store[i].messages, "ai", n)

\* C20: a step that changes the current session leaves the display empty or
\* showing the stored messages of the new current session.
C20_SwitchClearsDisplay ==
  [][(currentSessionId' # currentSessionId) =>
       LET list == IF isDemoMode' THEN chatSessions' ELSE store'
       IN \/ messages' = <<>>
          \/ /\ HasSession(list, currentSessionId')
             /\ messages' = SessionOf(list, currentSessionId').messages]_vars

\* C21: a snapshot of the session collection makes the store's first (most
\* recently updated) session current exactly when no session is current and
\* the snapshot is not empty; with a current session set it leaves the
\* current session id unchanged.
C21_SnapshotKeepsCurrent ==
  [][SessionsSnapshot =>
       /\ chatSessions' = store
       /\ currentSessionId' = IF currentSessionId = NoSession /\ store # <<>>
                              THEN store[1].id
                              ELSE currentSessionId]_vars

\* C22: every snapshot of the current session's document replaces the
\* displayed list: by the document's messages when that field is a sequence,
\* by the empty list when the document is absent or its messages field is
\* absent or not a sequence.
C22_DocSnapshotReplacesDisplay ==
  [][/\ DocSnapshot =>
          messages' = IF HasSession(store, currentSessionId)
                      THEN SessionOf(store, currentSessionId).messages
                      ELSE <<>>
     /\ \A docSnap \in ForeignDocs :
          OnDocSnapshot(docSnap) => messages' = <<>>]_vars

\* C22 witness: in Firestore mode with the document listener registered the
\* display is empty after one turn has ended although the current session's
\* stored list is not.
C22_Witness ==
  /\ DocSub # NoSession
  /\ turns = {} /\ nTurns > 0
  /\ messages = <<>>
  /\ HasSession(store, currentSessionId)
  /\ Len(SessionOf(store, currentSessionId).messages) = 2

\* C23: once the fetch of the API reference document has settled, the first
\* entry of every payload built from then on carries the document's text or,
\* when the fetch failed, its placeholder, never the empty text; the example
\* files are fetched after it in their fixed order whatever its outcome, each
\* adding its text or its placeholder to the combined examples.
C23_FailedFetchGivesPlaceholder ==
  [][/\ \A t \in turns' :
          (nTurns' = nTurns + 1 /\ t.n = nTurns' /\ fetchPc >= 1) =>
            \E doc \in {TextOf("Perception.txt"), PerceptionError} :
              t.prepared[1].text = ContextOf(doc, luaExamplesContent)
     /\ FetchPerception => fetchPc' = 1
     /\ FetchExample =>
          /\ fetchPc' = fetchPc + 1
          /\ examplesCombined' \in
               { examplesCombined \o ExampleBlock(luaFiles[fetchPc]),
                 examplesCombined \o ExampleError(luaFiles[fetchPc]) }]_vars

\* C24: in Demo mode, selecting a session of the list makes it current and,
\* in the same step, displays that record's stored messages.
C24_DemoSelectShowsStored ==
  [][\A i \in 1..Len(chatSessions) :
       (isDemoMode /\ selectChatSession(chatSessions[i].id)) =>
         /\ currentSessionId' = chatSessions[i].id
         /\ messages' = chatSessions[i].messages]_vars

\* C24 witness: in Demo mode the last turn was accepted in the newer of two
\* sessions and the older one is current again, which only a selection
\* brings about, with its non-empty stored list displayed.
C24_Witness ==
  /\ isDemoMode
  /\ Len(chatSessions) = 2
  /\ currentSessionId = chatSessions[2].id
  /\ chatSessions[2].messages # <<>>
  /\ messages = chatSessions[2].messages
  /\ nTurns = 2
  /\ Shows(chatSessions[1].messages, "user", 2)

NoFence(s) == \A i \in 1..Len(s) : ~FenceAt(s, i)

\* C25: a text made of plain text, one fenced code block and plain text is
\* rendered as three segments in that order, the first and the last not code
\* (a paragraph carrying the plain text, or a heading) and the middle one
\* code whose content is the block's body up to its line end, without the
\* opening fence, its language tag or the closing fence.
C25_FencedBlockGivesThreeSegments ==
  \A p1 \in Plains, l \in Langs, b \in Bodies, p2 \in Plains :
    (renderText = FencedText(p1, l, b, p2) /\ rendered # <<>>) =>
      /\ Len(rendered) = 3
      /\ rendered[1].kind \in {"p", "h2"}
      /\ rendered[1].kind = "p" => rendered[1].content = p1
      /\ rendered[2].kind = "code"
      /\ NoFence(rendered[2].content)
      /\ IsPrefix(b, rendered[2].content)
      /\ Len(rendered[2].content) <= Len(b) + 1
      /\ rendered[3].kind \in {"p", "h2"}
      /\ rendered[3].kind = "p" => rendered[3].content = p2

\* C25 witness: a text with a heading before, a language tag on the fence
\* and plain text after has been rendered.
C25_Witness ==
  /\ renderText =
       FencedText(<<"#", "#", SP, "a", NL>>, <<"l">>, <<"a", NL, "a">>, <<"a">>)
  /\ Len(rendered) = 3

C27_OneListenerEach ==
  /\ Len(listeners.sessions) <= 1
  /\ Len(listeners.docs) <= 1
  /\ listeners.docs # <<>> => listeners.docs = <<currentSessionId>>
  /\ listeners.sessions = IF SessionsSub THEN <<userId>> ELSE <<>>
  /\ listeners.docs = IF DocSub # NoSession THEN <<DocSub>> ELSE <<>>
  /\ isDemoMode => listeners.sessions = <<>> /\ listeners.docs = <<>>

\* C27 witness: Demo mode entered from Firestore mode (the store holds a
\* session with messages), both listeners gone.
C27_Witness ==
  /\ isDemoMode
  /\ store # <<>> /\ store[1].messages # <<>>
  /\ listeners.sessions = <<>> /\ listeners.docs = <<>>

\* The lists of no two sessions of a list hold the same message.
NoSharedMessage(list) ==
  \A i, j \in 1..Len(list) :
    i # j => \A a \in 1..Len(list[i].messages) :
               \A b \in 1..Len(list[j].messages) :
                 list[i].messages[a] # list[j].messages[b]

\* C28: no message crosses sessions: a list written to a session holds only
\* messages of turns started while that session was current, so that the
\* message of one turn is never stored under two sessions, in the store or
\* in the Demo-mode records.
C28_NoMessageCrossesSessions ==
  NoSharedMessage(store) /\ NoSharedMessage(chatSessions)

\* The stored list of session id in a list, <<>> when the list lacks it.
StoredIn(list, id) ==
  IF HasSession(list, id) THEN SessionOf(list, id).messages ELSE <<>>

\* C29: a turn belongs to the session that is current when the send is
\* accepted, and each of its persistence writes that lands, of the user
\* message and of the AI message, puts the turn's list under that session,
\* in the store and in the Demo-mode records, whatever session is current
\* when the write is made. (A Demo-mode write goes to the record of that
\* session in the list of the call's closure, when the list has one.)
C29_WritesTargetAcceptingSession ==
  [][/\ \A t \in turns' :
          (nTurns' = nTurns + 1 /\ t.n = nTurns') =>
            /\ t.sid = currentSessionId
            /\ (t.demo /\ HasSession(chatSessions, t.sid)) =>
                 StoredIn(chatSessions', t.sid) = t.list
     /\ \A t \in turns :
          /\ (nTurns' = nTurns /\ t \notin turns' /\ store' # store) =>
               StoredIn(store', t.sid) = t.list
          /\ (nTurns' = nTurns /\ t \notin turns' /\ t.demo
              /\ chatSessions' # chatSessions /\ HasSession(t.sessions, t.sid)) =>
               /\ Len(StoredIn(chatSessions', t.sid)) = Len(t.list) + 1
               /\ IsPrefix(t.list, StoredIn(chatSessions', t.sid))]_vars

\* C29 witness: in Firestore mode with no session list delivered (so that no
\* session was ever selected), the first session's document was written
\* last and holds the AI message of a turn, while the second session,
\* created in between, is current.
C29_Witness ==
  /\ ~isDemoMode /\ chatSessions = <<>>
  /\ Len(store) = 2 /\ store[1].id = 1
  /\ currentSessionId = 2
  /\ Shows(store[1].messages, "ai", 1)
  /\ turns = {}

\* C30: in Demo mode a session of the list stays in the list at every step,
\* among them the steps of a turn whose generation call was pending when a
\* session was created.
C30_DemoSessionNeverRemoved ==
  [][(isDemoMode /\ isDemoMode') =>
       \A i \in 1..Len(chatSessions) :
         HasSession(chatSessions', chatSessions[i].id)]_vars

\* C31: whenever a session is current and no creation is pending, the
\* current session id is that of a session of the session list (in Firestore
\* mode: of the list or of the store, whose snapshot the list follows).
C31_CurrentSessionInList ==
  (currentSessionId # NoSession /\ creating = 0 /\ autoCreating = 0) =>
    \/ HasSession(chatSessions, currentSessionId)
    \/ ~isDemoMode /\ HasSession(store, currentSessionId)

\* C32: in the payload of every generation call the entries after the two
\* leading context entries alternate user, model, user, ... and the last one
\* is a user entry.
C32_PayloadAlternates ==
  \A t \in turns :
    t.contents # <<>> =>
      LET c == t.contents
      IN /\ \A i \in 3..Len(c) :
              c[i].role = IF (i - 3) % 2 = 0 THEN "user" ELSE "model"
         /\ c[Len(c)].role = "user"

\* C33: no generation call is prepared before the startup loading of the
\* reference documents has finished: whenever a send is accepted and its
\* payload is built, every fetch of the loader has settled and the leading
\* entry carries the combined example text that the loader stored.
C33_NoCallBeforeDocsLoaded ==
  [][\A t \in turns' :
       (nTurns' = nTurns + 1 /\ t.n = nTurns') =>
         /\ fetchPc = FetchDone
         /\ \E doc \in {<<>>, TextOf("Perception.txt"), PerceptionError} :
              t.prepared[1].text = ContextOf(doc, examplesCombined)]_vars

\* C34: when a pending session creation of Firestore mode settles without a
\* document having been added (addDoc rejected), the session list, the
\* current session id and the displayed messages are unchanged, the mode, the
\* input and the turns in flight are untouched, and loading is lowered.
C34_FailedCreateChangesNothing ==
  [][(/\ ~isDemoMode
      /\ creating' + autoCreating' < creating + autoCreating
      /\ nextId' = nextId) =>
       /\ chatSessions' = chatSessions
       /\ currentSessionId' = currentSessionId
       /\ messages' = messages
       /\ store' = store
       /\ UNCHANGED <<modeVars, input, turnVars>>
       /\ loading' = FALSE]_vars

\* Firestore mode after the first snapshot of an empty store: the creation
\* that snapshot issued has failed, nothing is pending and loading is down.
C34_Witness ==
  /\ ~isDemoMode
  /\ firstSnapshot
  /\ store = <<>>
  /\ nextId = 1
  /\ creating = 0
  /\ autoCreating = 0
  /\ ~loading
  /\ chatSessions = <<>>
  /\ currentSessionId = NoSession
  /\ messages = <<>>

====
